---- MODULE Spec2Model ----
(***************************************************************************)
(* Smart-campus attendance tracker: the attendance ledger, the eligibility *)
(* checks of the mark paths, the statistics aggregator and the absence     *)
(* notification fan-out, as implemented by the Django views.               *)
(*                                                                         *)
(* Tables are sets of rows.  Auto-increment / fresh primary keys are       *)
(* modelled as "number of rows + 1" (no mark path deletes rows).           *)
(* Percentages are integers in tenths of a percent (75.0 is 750).          *)
(***************************************************************************)
EXTENDS Integers, Sequences, FiniteSets, TLC

\* ------------------------------------------------------------------ bounds
\* Number of requests served in one behaviour.
MaxOps == 3
\* Longest attendance_data list of one bulk request.
MaxBatch == 2
\* Largest record set handed to the aggregator.
MaxTotal == 16

\* ---------------------------------------------------------------- universe
\* Student rows of the database, in roll_number order.
StudentOrder == <<"s1", "s2", "s3">>
Students == {StudentOrder[i] : i \in 1..Len(StudentOrder)}
\* Student.is_active
ActiveStudents == {"s1", "s2"}
\* Student.parent is set
WithParent == {"s1"}
\* Student.phone is non-blank
WithPhone == {"s1"}
\* A student id that matches no Student row.
NoSuchStudent == "s404"

Courses == {"c1", "c2"}
Sessions == {"x1", "x2"}
\* AttendanceSession.course
SessionCourse == [s \in Sessions |-> IF s = "x1" THEN "c1" ELSE "c2"]

\* Attendance.STATUS_CHOICES
Statuses == {"present", "absent", "late", "excused"}
\* request.user of an authenticated request
RequestUser == "u1"
\* NULL in a nullable column
Null == "null"

VARIABLES
    is_active,             \* AttendanceSession.is_active, per session
    students,              \* Course.students (many-to-many), per course
    attendance,            \* table Attendance
    notifications,         \* table Notification
    parent_notifications,  \* table ParentNotification
    notification_logs,     \* table NotificationLog
    last,                  \* the request served last and its response
    nops,                  \* number of requests served
    am,                    \* an auto_mark_absentees call between its query and its inserts
    records,               \* queryset handed to the aggregator
    stats                  \* the aggregator's answer

vars == <<is_active, students, attendance, notifications, parent_notifications,
          notification_logs, last, nops, am, records, stats>>

db == <<attendance, notifications, parent_notifications, notification_logs>>

\* ------------------------------------------------------------ Attendance ORM
\* A new Attendance row; columns not passed keep the field defaults.
AttendanceRow(id, s, st, status, method, by, conf, loc, notes) ==
    [id |-> id, session |-> s, student |-> st, status |-> status,
     verification_method |-> method, marked_by |-> by,
     face_confidence |-> conf, location |-> loc, notes |-> notes]

\* Rows of one (session, student) pair.
RowsOf(rows, s, st) == {r \in rows : r.session = s /\ r.student = st}

\* unique_together = ['session', 'student'] loosened: never reports a conflict.
UniqueViolationDropped(rows, s, st) == FALSE

\* unique_together = ['session', 'student']: an INSERT for a pair that already
\* has a row is rejected by the database (IntegrityError).
UniqueViolation(rows, s, st) == RowsOf(rows, s, st) # {}

\* Attendance.objects.create(**row): [ok, rows].
Create(rows, row) ==
    IF UniqueViolation(rows, row.session, row.student)
    THEN [ok |-> FALSE, rows |-> rows]
    ELSE [ok |-> TRUE, rows |-> rows \cup {row}]

\* update_or_create with the status also used as a lookup key instead of a default.
UpdateOrCreateStatusKey(rows, s, st, defaults, fresh) ==
    LET found == {r \in RowsOf(rows, s, st) : r.status = defaults.status} IN
    IF found # {}
    THEN LET old == CHOOSE r \in found : TRUE
             new == [f \in DOMAIN old |->
                        IF f \in DOMAIN defaults THEN defaults[f] ELSE old[f]]
         IN [rows |-> (rows \ {old}) \cup {new}, row |-> new, created |-> FALSE,
             ok |-> TRUE]
    ELSE LET new == [f \in DOMAIN fresh |->
                        IF f \in DOMAIN defaults THEN defaults[f] ELSE fresh[f]]
         IN [rows |-> rows \cup {new}, row |-> new, created |-> TRUE, ok |-> TRUE]

\* Attendance.objects.update_or_create(session=s, student=st, defaults=...):
\* an existing row gets the defaults written over it, otherwise a row is
\* inserted with the defaults (fresh carries id, keys and field defaults).
UpdateOrCreate(rows, s, st, defaults, fresh) ==
    LET found == RowsOf(rows, s, st) IN
    IF found # {}
    THEN LET old == CHOOSE r \in found : TRUE
             new == [f \in DOMAIN old |->
                        IF f \in DOMAIN defaults THEN defaults[f] ELSE old[f]]
         IN [rows |-> (rows \ {old}) \cup {new}, row |-> new, created |-> FALSE,
             ok |-> TRUE]
    ELSE LET new == [f \in DOMAIN fresh |->
                        IF f \in DOMAIN defaults THEN defaults[f] ELSE fresh[f]]
             ins == Create(rows, new)
         IN [rows |-> ins.rows, row |-> new, created |-> ins.ok, ok |-> ins.ok]

\* The row a create() or update_or_create() starts from: next primary key, the
\* pair, and the model's field defaults.
FreshRow(rows, s, st) ==
    AttendanceRow(Cardinality(rows) + 1, s, st, "absent", "manual", Null, Null, Null, "")

\* session.course.students.filter(id=student.id).exists()
Enrolled(s, st) == st \in students[SessionCourse[s]]

\* session.course.students.filter(is_active=True)
EnrolledActive(s) == students[SessionCourse[s]] \cap ActiveStudents

\* --------------------------------------------------------- notifications
\* The three notification tables, passed through the senders together.
Tables(n, p, l) == [n |-> n, p |-> p, l |-> l]

\* The foreign key of a NotificationLog that points to no row (null=True);
\* primary keys start at 1.
NoId == 0

\* NotificationLog rows appended for the channels attempted, in order.
LogRows(logs, nid, pid, chans) ==
    {[id |-> Cardinality(logs) + i, notification |-> nid, parent_notification |-> pid,
      channel |-> chans[i], status |-> "sent"] : i \in 1..Len(chans)}

\* _simulate_send_notification sending the SMS whenever send_sms is set,
\* whether the student has a phone number or not.
SimulateSendNotificationAnyPhone(n, logs) ==
    LET chans == (IF n.send_email THEN <<"email">> ELSE <<>>)
                 \o (IF n.send_sms THEN <<"sms">> ELSE <<>>)
                 \o (IF n.send_push THEN <<"push">> ELSE <<>>)
    IN [notification |-> [n EXCEPT !.is_sent = TRUE,
                                   !.email_sent = n.email_sent \/ n.send_email,
                                   !.sms_sent = n.sms_sent \/ n.send_sms,
                                   !.push_sent = n.push_sent \/ n.send_push],
        logs |-> logs \cup LogRows(logs, n.id, NoId, chans)]

\* _simulate_send_notification: one log row per attempted channel, flags set.
SimulateSendNotification(n, logs) ==
    LET sms == n.send_sms /\ n.student \in WithPhone
        chans == (IF n.send_email THEN <<"email">> ELSE <<>>)
                 \o (IF sms THEN <<"sms">> ELSE <<>>)
                 \o (IF n.send_push THEN <<"push">> ELSE <<>>)
    IN [notification |-> [n EXCEPT !.is_sent = TRUE,
                                   !.email_sent = n.email_sent \/ n.send_email,
                                   !.sms_sent = n.sms_sent \/ sms,
                                   !.push_sent = n.push_sent \/ n.send_push],
        logs |-> logs \cup LogRows(logs, n.id, NoId, chans)]

\* _simulate_send_parent_notification: email always, SMS iff the parent has a
\* phone (the parent's phone is taken to be the student's contact phone).
SimulateSendParentNotification(p, logs) ==
    LET sms == p.student \in WithPhone
        chans == <<"email">> \o (IF sms THEN <<"sms">> ELSE <<>>)
    IN [notification |-> [p EXCEPT !.email_sent = TRUE, !.sms_sent = p.sms_sent \/ sms],
        logs |-> logs \cup LogRows(logs, NoId, p.id, chans)]

\* The absence notification of the student alone, the parent left out.
CreateAbsenceNotificationStudentOnly(row, T) ==
    LET n0 == [id |-> Cardinality(T.n) + 1, student |-> row.student,
               notification_type |-> "absence", attendance |-> row.id,
               send_email |-> TRUE, send_sms |-> FALSE, send_push |-> TRUE,
               is_sent |-> FALSE, email_sent |-> FALSE, sms_sent |-> FALSE,
               push_sent |-> FALSE]
        s1 == SimulateSendNotification(n0, T.l)
    IN Tables(T.n \cup {s1.notification}, T.p, s1.logs)

\* Notification.objects.create(...) followed by the simulated send, and the
\* ParentNotification when student.parent is set: the common tail of
\* send_absentee_notifications and send_single_absentee_notification.
CreateAbsenceNotification(row, T) ==
    LET n0 == [id |-> Cardinality(T.n) + 1, student |-> row.student,
               notification_type |-> "absence", attendance |-> row.id,
               send_email |-> TRUE, send_sms |-> FALSE, send_push |-> TRUE,
               is_sent |-> FALSE, email_sent |-> FALSE, sms_sent |-> FALSE,
               push_sent |-> FALSE]
        s1 == SimulateSendNotification(n0, T.l)
        p0 == [id |-> Cardinality(T.p) + 1, student |-> row.student,
               notification_type |-> "absence", email_sent |-> FALSE,
               sms_sent |-> FALSE]
        s2 == SimulateSendParentNotification(p0, s1.logs)
    IN IF row.student \in WithParent
       THEN Tables(T.n \cup {s1.notification}, T.p \cup {s2.notification}, s2.logs)
       ELSE Tables(T.n \cup {s1.notification}, T.p, s1.logs)

\* Notification.objects.filter(student, attendance, notification_type='absence').exists()
AbsenceNotificationExists(row, T) ==
    \E n \in T.n : /\ n.student = row.student
                   /\ n.attendance = row.id
                   /\ n.notification_type = "absence"

\* send_single_absentee_notification whose check for an existing notification
\* looks only at notifications made for the record since it last left absent,
\* here none: a record coming back to absent is notified again.
SendSingleSinceLastAbsence(row, T) ==
    IF row.status # "absent" THEN T
    ELSE IF \E n \in T.n : /\ n.student = row.student
                           /\ n.attendance = row.id
                           /\ n.notification_type = "absence"
                           /\ ~n.is_sent
         THEN T
         ELSE CreateAbsenceNotification(row, T)

\* send_single_absentee_notification without the check for an existing
\* notification.
SendSingleNoDedup(row, T) ==
    IF row.status # "absent" THEN T ELSE CreateAbsenceNotification(row, T)

\* send_single_absentee_notification(attendance)
SendSingleAbsenteeNotification(row, T) ==
    IF row.status # "absent" THEN T
    ELSE IF \E n \in T.n : /\ n.student = row.student
                           /\ n.attendance = row.id
                           /\ n.notification_type = "absence"
         THEN T
         ELSE CreateAbsenceNotification(row, T)

\* The loop of send_absentee_notifications over the absent records, newest
\* first (Attendance.Meta.ordering = ['-marked_at']).
RECURSIVE NotifyEach(_, _)
NotifyEach(todo, T) ==
    IF todo = {} THEN T
    ELSE LET row == CHOOSE r \in todo : \A q \in todo : q.id <= r.id
         IN NotifyEach(todo \ {row}, CreateAbsenceNotification(row, T))

\* send_absentee_notifications(session)
SendAbsenteeNotifications(s, rows, T) ==
    NotifyEach({r \in rows : r.session = s /\ r.status = "absent"}, T)

\* ---------------------------------------------------------------- aggregator
\* Count('id', filter=Q(status=status))
CountStatus(rows, status) == Cardinality({r \in rows : r.status = status})

\* round(num / den * 100, 1) rounding exact halves up, in tenths of a percent.
Round1HalfUp(num, den) == (2000 * num + den) \div (2 * den)

\* Python's round(num / den * 100, 1), in tenths of a percent: the nearest
\* tenth, an exact half going to the even tenth.  The double num / den * 100
\* rounds like the exact quotient for every den below 80 (23 / 80 * 100 is the
\* first double that does not), which covers every den up to MaxTotal + 1.
Round1(num, den) ==
    LET q == (1000 * num) \div den
        r == (1000 * num) % den
    IN IF 2 * r > den THEN q + 1
       ELSE IF 2 * r < den THEN q
       ELSE IF q % 2 = 0 THEN q ELSE q + 1

\* An empty record set counted as full attendance.
PercentageFullWhenEmpty(count, total) ==
    IF total = 0 THEN 1000 ELSE Round1(count, total)

\* total = stats['total'] or 1; round(count / total * 100, 1)
\* (the same two lines in stats, attendance_stats, the API student_dashboard
\* and InstantAttendanceUpdater.get_session_stats)
Percentage(count, total) == Round1(count, IF total = 0 THEN 1 ELSE total)

\* AttendanceSessionViewSet.stats
SessionStats(rows) ==
    LET present == CountStatus(rows, "present")
        late == CountStatus(rows, "late")
    IN [view |-> "stats", total |-> Cardinality(rows), present |-> present,
        absent |-> CountStatus(rows, "absent"), late |-> late,
        excused |-> CountStatus(rows, "excused"),
        percentage |-> Percentage(present + late, Cardinality(rows))]

\* InstantAttendanceUpdater.get_session_stats
GetSessionStats(rows) ==
    LET present == CountStatus(rows, "present")
        late == CountStatus(rows, "late")
    IN [view |-> "get_session_stats", total |-> Cardinality(rows), present |-> present,
        absent |-> CountStatus(rows, "absent"), late |-> late,
        excused |-> CountStatus(rows, "excused"),
        percentage |-> Percentage(present + late, Cardinality(rows))]

\* One entry of course_wise_stats in StudentViewSet.attendance_stats
CourseStats(rows) ==
    [total |-> Cardinality(rows), present |-> CountStatus(rows, "present"),
     absent |-> CountStatus(rows, "absent"),
     percentage |-> Percentage(CountStatus(rows, "present"), Cardinality(rows))]

\* StudentViewSet.attendance_stats over the student's records; the student is
\* enrolled in every course.
AttendanceStats(rows) ==
    LET present == CountStatus(rows, "present")
        late == CountStatus(rows, "late")
    IN [view |-> "attendance_stats", total |-> Cardinality(rows), present |-> present,
        absent |-> CountStatus(rows, "absent"), late |-> late,
        percentage |-> Percentage(present + late, Cardinality(rows)),
        course_wise_stats |->
            [c \in Courses |-> CourseStats({r \in rows : r.course = c})]]

\* if total > 0: round((present + late) / total * 100, 1) else 0
WebPercentage(count, total) == IF total > 0 THEN Round1(count, total) ELSE 0

\* One entry of course_stats in the web student_dashboard
WebCourseStats(rows) ==
    [total |-> Cardinality(rows), present |-> CountStatus(rows, "present"),
     late |-> CountStatus(rows, "late"),
     percentage |-> WebPercentage(CountStatus(rows, "present") + CountStatus(rows, "late"),
                                  Cardinality(rows))]

\* attendance.views.student_dashboard over the student's records
StudentDashboard(rows) ==
    LET present == CountStatus(rows, "present")
        late == CountStatus(rows, "late")
    IN [view |-> "student_dashboard", total |-> Cardinality(rows), present |-> present,
        absent |-> CountStatus(rows, "absent"), late |-> late,
        percentage |-> WebPercentage(present + late, Cardinality(rows)),
        course_wise_stats |->
            [c \in Courses |-> WebCourseStats({r \in rows : r.course = c})]]

\* No aggregate has been asked for.
NoStats == [view |-> "none"]

\* ----------------------------------------------------------------- responses
Response(op, result, s, st, created, count, errors) ==
    [op |-> op, result |-> result, session |-> s, student |-> st,
     created |-> created, count |-> count, errors |-> errors]

NoRequest == Response("none", "none", Null, Null, FALSE, 0, 0)

\* No auto_mark_absentees call is in flight.
Idle == [session |-> Null, todo |-> <<>>, count |-> 0]

\* The notification tables before the request.
Now == Tables(notifications, parent_notifications, notification_logs)

\* The request writes the notification tables.
Notified(T) ==
    /\ notifications' = T.n
    /\ parent_notifications' = T.p
    /\ notification_logs' = T.l

\* One more request is served; the request changes neither rosters nor sessions.
Served ==
    /\ nops < MaxOps
    /\ nops' = nops + 1
    /\ UNCHANGED <<am, records, stats>>

\* ------------------------------------------------------------------- inputs
\* status values posted to the API mark endpoint
MarkStatuses == {"present", "absent"}
\* items of a bulk request: student_id and status
BulkItems == {[student_id |-> "s2", status |-> "absent"],
              [student_id |-> NoSuchStudent, status |-> "present"]}
BulkData == UNION {[1..n -> BulkItems] : n \in 0..MaxBatch}
\* the manual marking form as posted: every status_<id> present, or none posted
\* (a missing status_<id> reads as 'absent')
Forms == {[st \in Students |-> "present"], [st \in Students |-> "absent"]}
\* the session the classroom requests (bulk, form, camera, auto-absent, settings)
\* are issued for; the mobile endpoints are called for every session
ClassSessions == {"x1"}
\* the course whose roster the faculty edits
EditedCourses == {"c1"}
\* student ids posted to the mark endpoints
MarkStudents == {"s1", "s2", NoSuchStudent}
FaceStudents == {"s2", "s3", NoSuchStudent}
\* status values posted to the AJAX update
AjaxStatuses == {"absent", "excused"}
\* rosters posted to enroll_students
Rosters == {{"s1"}, {"s1", "s2", "s3"}}

\* ------------------------------------------------------------------- actions
\* The checks without the session-active test.
EligibilityNoActiveCheck(s, st) ==
    IF ~Enrolled(s, st) THEN "not_enrolled" ELSE "ok"

\* The checks without the enrollment test.
EligibilityNoEnrolledCheck(s, st) ==
    IF ~is_active[s] THEN "session_not_active" ELSE "ok"

\* The two checks of mark_attendance before it writes, in the order of the
\* code: the session must be active, then the student must be on the roster.
Eligibility(s, st) ==
    IF ~is_active[s] THEN "session_not_active"
    ELSE IF ~Enrolled(s, st) THEN "not_enrolled"
    ELSE "ok"

\* api.views.mark_attendance
MarkAttendance(s, st, status, loc) ==
    /\ Served
    /\ UNCHANGED <<is_active, students>>
    /\ IF st \notin Students
       THEN \* get_object_or_404 raises, the outer except answers 500
            /\ last' = Response("mark_attendance", "error", s, st, FALSE, 0, 0)
            /\ UNCHANGED db
       ELSE IF Eligibility(s, st) # "ok"
       THEN /\ last' = Response("mark_attendance", Eligibility(s, st), s, st, FALSE, 0, 0)
            /\ UNCHANGED db
       ELSE LET up == UpdateOrCreate(attendance, s, st,
                         [status |-> status, verification_method |-> "mobile_gps",
                          marked_by |-> RequestUser, location |-> loc,
                          face_confidence |-> Null, notes |-> ""],
                         FreshRow(attendance, s, st))
                T == IF status = "absent"
                     THEN SendSingleAbsenteeNotification(up.row, Now)
                     ELSE Now
            IN /\ attendance' = up.rows
               /\ Notified(T)
               /\ last' = Response("mark_attendance", "ok", s, st, up.created, 0, 0)

\* The loop leaving at the first failing item instead of going on to the next.
RECURSIVE BulkLoopAbort(_, _, _, _)
BulkLoopAbort(s, data, i, acc) ==
    IF i > Len(data) THEN acc
    ELSE LET item == data[i] IN
         IF item.student_id \notin Students \/ ~Enrolled(s, item.student_id)
         THEN [acc EXCEPT !.errors = @ + 1]
         ELSE LET up == UpdateOrCreate(acc.rows, s, item.student_id,
                           [status |-> item.status, verification_method |-> "manual",
                            marked_by |-> RequestUser, notes |-> ""],
                           FreshRow(acc.rows, s, item.student_id))
              IN BulkLoopAbort(s, data, i + 1,
                               [acc EXCEPT !.rows = up.rows, !.results = @ + 1])

\* The loop of bulk_mark_attendance over attendance_data[i..]: acc carries the
\* rows and the lengths of the results and errors lists.
RECURSIVE BulkLoop(_, _, _, _)
BulkLoop(s, data, i, acc) ==
    IF i > Len(data) THEN acc
    ELSE LET item == data[i] IN
         IF item.student_id \notin Students
         THEN \* get_object_or_404 raises inside the per-item try
              BulkLoop(s, data, i + 1, [acc EXCEPT !.errors = @ + 1])
         ELSE IF ~Enrolled(s, item.student_id)
         THEN BulkLoop(s, data, i + 1, [acc EXCEPT !.errors = @ + 1])
         ELSE LET up == UpdateOrCreate(acc.rows, s, item.student_id,
                           [status |-> item.status, verification_method |-> "manual",
                            marked_by |-> RequestUser, notes |-> ""],
                           FreshRow(acc.rows, s, item.student_id))
              IN IF up.ok
                 THEN BulkLoop(s, data, i + 1,
                               [acc EXCEPT !.rows = up.rows, !.results = @ + 1])
                 ELSE BulkLoop(s, data, i + 1, [acc EXCEPT !.errors = @ + 1])

\* api.views.bulk_mark_attendance
BulkMarkAttendance(s, data) ==
    /\ Served
    /\ UNCHANGED <<is_active, students>>
    /\ IF ~is_active[s]
       THEN /\ last' = Response("bulk_mark_attendance", "session_not_active", s, Null,
                                FALSE, 0, 0)
            /\ UNCHANGED db
       ELSE LET done == BulkLoop(s, data, 1, [rows |-> attendance, results |-> 0,
                                              errors |-> 0])
            IN /\ attendance' = done.rows
               /\ Notified(SendAbsenteeNotifications(s, done.rows, Now))
               /\ last' = Response("bulk_mark_attendance", "ok", s, Null, FALSE,
                                   done.results, done.errors)

\* api.views.face_recognition_mark
FaceRecognitionMark(s, st) ==
    /\ Served
    /\ UNCHANGED <<is_active, students, notifications, parent_notifications,
                   notification_logs>>
    /\ IF st \notin Students
       THEN \* Student.DoesNotExist answers 404
            /\ last' = Response("face_recognition_mark", "not_found", s, st, FALSE, 0, 0)
            /\ UNCHANGED attendance
       ELSE LET up == UpdateOrCreate(attendance, s, st,
                         [status |-> "present", verification_method |-> "face_recognition",
                          marked_by |-> RequestUser, face_confidence |-> "conf"],
                         FreshRow(attendance, s, st))
            IN /\ attendance' = up.rows
               /\ last' = Response("face_recognition_mark", "ok", s, st, up.created, 0, 0)

\* The POST branch of attendance.views.mark_attendance (manual entry form): the
\* loop over the active roster in roll_number order, from index i on.
RECURSIVE FormLoop(_, _, _, _, _)
FormLoop(s, form, existing, i, acc) ==
    IF i > Len(StudentOrder) THEN acc
    ELSE LET st == StudentOrder[i] IN
         IF st \notin EnrolledActive(s) THEN FormLoop(s, form, existing, i + 1, acc)
         ELSE IF \E r \in existing : r.student = st
         THEN \* record.status = status; record.notes = notes; record.save()
              LET old == CHOOSE r \in existing : r.student = st
                  new == [old EXCEPT !.status = form[st], !.notes = ""]
              IN FormLoop(s, form, existing, i + 1,
                          [acc EXCEPT !.rows = {r \in @ : r.id # old.id} \cup {new}])
         ELSE LET ins == Create(acc.rows,
                                [FreshRow(acc.rows, s, st) EXCEPT
                                    !.status = form[st], !.marked_by = RequestUser])
              IN IF ins.ok
                 THEN FormLoop(s, form, existing, i + 1, [acc EXCEPT !.rows = ins.rows])
                 ELSE [acc EXCEPT !.ok = FALSE]

\* attendance.views.mark_attendance, POST
WebMarkAttendance(s, form) ==
    /\ Served
    /\ UNCHANGED <<is_active, students>>
    /\ LET done == FormLoop(s, form, {r \in attendance : r.session = s}, 1,
                            [rows |-> attendance, ok |-> TRUE])
       IN /\ attendance' = done.rows
          /\ IF done.ok
             THEN /\ Notified(SendAbsenteeNotifications(s, done.rows, Now))
                  /\ last' = Response("web_mark_attendance", "ok", s, Null, FALSE, 0, 0)
             ELSE /\ UNCHANGED <<notifications, parent_notifications, notification_logs>>
                  /\ last' = Response("web_mark_attendance", "error", s, Null, FALSE, 0, 0)

\* face_recognition.views.process_face_image; st is the engine's answer, a
\* student of the active roster or Null.
ProcessFaceImage(s, st) ==
    /\ Served
    /\ st \in EnrolledActive(s) \cup {Null}
    /\ UNCHANGED <<is_active, students, notifications, parent_notifications,
                   notification_logs>>
    /\ IF st = Null
       THEN /\ last' = Response("process_face_image", "not_recognized", s, Null, FALSE, 0, 0)
            /\ UNCHANGED attendance
       ELSE LET up == UpdateOrCreate(attendance, s, st,
                         [status |-> "present", verification_method |-> "face_recognition",
                          marked_by |-> RequestUser, face_confidence |-> "conf"],
                         FreshRow(attendance, s, st))
            IN /\ attendance' = up.rows
               /\ last' = Response("process_face_image", "ok", s, st, up.created, 0, 0)

\* The loop of batch_face_recognition over the engine's results, in roll order.
RECURSIVE BatchLoop(_, _, _, _)
BatchLoop(s, found, i, rows) ==
    IF i > Len(StudentOrder) THEN rows
    ELSE IF StudentOrder[i] \notin found THEN BatchLoop(s, found, i + 1, rows)
    ELSE BatchLoop(s, found, i + 1,
                   UpdateOrCreate(rows, s, StudentOrder[i],
                       [status |-> "present", verification_method |-> "face_recognition",
                        face_confidence |-> "conf"],
                       FreshRow(rows, s, StudentOrder[i])).rows)

\* face_recognition.views.batch_face_recognition; found is the set of students
\* the engine reports, drawn from the active roster.
BatchFaceRecognition(s, found) ==
    /\ Served
    /\ found \subseteq EnrolledActive(s)
    /\ UNCHANGED <<is_active, students, notifications, parent_notifications,
                   notification_logs>>
    /\ attendance' = BatchLoop(s, found, 1, attendance)
    /\ last' = Response("batch_face_recognition", "ok", s, Null, FALSE,
                        Cardinality(found), 0)

\* The unmarked queryset computed as detect_session_absentees computes its
\* answer: the active roster minus the students marked present or late.
UnmarkedNotPresent(rows, s) ==
    SelectSeq(StudentOrder,
              LAMBDA st : /\ st \in EnrolledActive(s)
                          /\ \A r \in RowsOf(rows, s, st) :
                                r.status \notin {"present", "late"})

\* The unmarked queryset without the exclusion of the marked students: the
\* whole active roster.
UnmarkedWholeRoster(rows, s) ==
    SelectSeq(StudentOrder, LAMBDA st : st \in EnrolledActive(s))

\* enrolled.exclude(id__in=marked) of auto_mark_absentees, in roll_number order.
Unmarked(rows, s) ==
    SelectSeq(StudentOrder,
              LAMBDA st : st \in EnrolledActive(s) /\ RowsOf(rows, s, st) = {})

\* The row created with the status only, actor and notes left at their defaults.
AbsentRowDefaults(rows, s, st) ==
    [FreshRow(rows, s, st) EXCEPT !.status = "absent"]

\* The row auto_mark_absentees creates for an unmarked student.
AbsentRow(rows, s, st) ==
    [FreshRow(rows, s, st) EXCEPT !.status = "absent", !.verification_method = "manual",
                                  !.marked_by = RequestUser,
                                  !.notes = "Auto-marked as absent"]

\* The loop writing an absent row for every student of the active roster with
\* update_or_create, whether the student is in todo or not.
RECURSIVE AbsentLoopUpsert(_, _, _, _)
AbsentLoopUpsert(s, todo, i, acc) ==
    IF i > Len(StudentOrder) THEN acc
    ELSE IF StudentOrder[i] \notin EnrolledActive(s)
    THEN AbsentLoopUpsert(s, todo, i + 1, acc)
    ELSE LET up == UpdateOrCreate(acc.rows, s, StudentOrder[i],
                      [status |-> "absent", verification_method |-> "manual",
                       marked_by |-> RequestUser, notes |-> "Auto-marked as absent"],
                      FreshRow(acc.rows, s, StudentOrder[i]))
         IN AbsentLoopUpsert(s, todo, i + 1,
                [acc EXCEPT !.rows = up.rows,
                            !.count = IF up.created THEN @ + 1 ELSE @])

\* The loop of AutomatedAbsenteeDetector.auto_mark_absentees over todo[i..].
RECURSIVE AbsentLoop(_, _, _, _)
AbsentLoop(s, todo, i, acc) ==
    IF i > Len(todo) THEN acc
    ELSE LET ins == Create(acc.rows, AbsentRow(acc.rows, s, todo[i]))
         IN IF ins.ok
            THEN AbsentLoop(s, todo, i + 1,
                            [acc EXCEPT !.rows = ins.rows, !.count = @ + 1])
            ELSE [acc EXCEPT !.ok = FALSE]

\* face_recognition.views.auto_mark_absentees, served without interleaving
AutoMarkAbsentees(s) ==
    /\ Served
    /\ UNCHANGED <<is_active, students>>
    /\ LET done == AbsentLoop(s, Unmarked(attendance, s), 1,
                              [rows |-> attendance, count |-> 0, ok |-> TRUE])
       IN /\ attendance' = done.rows
          /\ IF done.ok
             THEN /\ Notified(SendAbsenteeNotifications(s, done.rows, Now))
                  /\ last' = Response("auto_mark_absentees", "ok", s, Null, FALSE,
                                      done.count, 0)
             ELSE /\ UNCHANGED <<notifications, parent_notifications, notification_logs>>
                  /\ last' = Response("auto_mark_absentees", "error", s, Null, FALSE,
                                      done.count, 0)

\* update_attendance_ajax sending the notification whenever the new status is
\* absent, whatever the status was before.
UpdateAttendanceAjaxAnyAbsent(id, status) ==
    /\ Served
    /\ UNCHANGED <<is_active, students>>
    /\ IF \E r \in attendance : r.id = id
       THEN LET old == CHOOSE r \in attendance : r.id = id
                new == [old EXCEPT !.status = status]
                T == IF status = "absent"
                     THEN SendSingleAbsenteeNotification(new, Now)
                     ELSE Now
            IN /\ attendance' = (attendance \ {old}) \cup {new}
               /\ Notified(T)
               /\ last' = Response("update_attendance_ajax", "ok", old.session,
                                   old.student, FALSE, 0, 0)
       ELSE /\ UNCHANGED db
            /\ last' = Response("update_attendance_ajax", "error", Null, Null, FALSE, 0, 0)

\* attendance.views.update_attendance_ajax
UpdateAttendanceAjax(id, status) ==
    /\ Served
    /\ UNCHANGED <<is_active, students>>
    /\ IF \E r \in attendance : r.id = id
       THEN LET old == CHOOSE r \in attendance : r.id = id
                new == [old EXCEPT !.status = status]
                T == IF status = "absent" /\ old.status # "absent"
                     THEN SendSingleAbsenteeNotification(new, Now)
                     ELSE Now
            IN /\ attendance' = (attendance \ {old}) \cup {new}
               /\ Notified(T)
               /\ last' = Response("update_attendance_ajax", "ok", old.session,
                                   old.student, FALSE, 0, 0)
       ELSE /\ UNCHANGED db
            /\ last' = Response("update_attendance_ajax", "error", Null, Null, FALSE, 0, 0)

\* attendance.views.enroll_students, POST: the roster is cleared and replaced.
EnrollStudents(c, selected) ==
    /\ Served
    /\ students' = [students EXCEPT ![c] = selected]
    /\ last' = Response("enroll_students", "ok", Null, Null, FALSE, Cardinality(selected), 0)
    /\ UNCHANGED <<is_active, attendance, notifications, parent_notifications,
                   notification_logs>>

\* AttendanceSessionViewSet partial_update of is_active
UpdateSession(s, flag) ==
    /\ Served
    /\ is_active' = [is_active EXCEPT ![s] = flag]
    /\ last' = Response("update_session", "ok", s, Null, FALSE, 0, 0)
    /\ UNCHANGED <<students, attendance, notifications, parent_notifications,
                   notification_logs>>

\* ------------------------------------------------------------ specification
\* Sessions open, the rosters as enrolled by the faculty, empty tables.
Init ==
    /\ is_active = [s \in Sessions |-> TRUE]
    /\ students = [c \in Courses |-> IF c = "c1" THEN {"s1", "s2", "s3"} ELSE {"s1"}]
    /\ attendance = {}
    /\ notifications = {}
    /\ parent_notifications = {}
    /\ notification_logs = {}
    /\ last = NoRequest
    /\ nops = 0
    /\ am = Idle
    /\ records = {}
    /\ stats = NoStats

Next ==
    \/ \E s \in Sessions, st \in MarkStudents, status \in MarkStatuses :
          MarkAttendance(s, st, status, "gps")
    \/ \E s \in ClassSessions, data \in BulkData : BulkMarkAttendance(s, data)
    \/ \E s \in Sessions, st \in FaceStudents : FaceRecognitionMark(s, st)
    \/ \E s \in ClassSessions, form \in Forms : WebMarkAttendance(s, form)
    \/ \E s \in ClassSessions, st \in Students \cup {Null} : ProcessFaceImage(s, st)
    \/ \E s \in ClassSessions, found \in SUBSET Students : BatchFaceRecognition(s, found)
    \/ \E s \in ClassSessions : AutoMarkAbsentees(s)
    \/ \E id \in 1..(Cardinality(attendance) + 1), status \in AjaxStatuses :
          UpdateAttendanceAjax(id, status)
    \/ \E c \in EditedCourses, selected \in Rosters : EnrollStudents(c, selected)
    \/ \E s \in ClassSessions, flag \in BOOLEAN : UpdateSession(s, flag)

Spec == Init /\ [][Next]_vars

\* ------------------------------------------- interleaved auto_mark_absentees
\* The view up to the evaluation of the unmarked queryset; the inserts follow
\* one by one, and other requests may be served in between.
AutoMarkQuery(s) ==
    /\ am = Idle
    /\ nops < MaxOps
    /\ nops' = nops + 1
    /\ am' = [session |-> s, todo |-> Unmarked(attendance, s), count |-> 0]
    /\ UNCHANGED <<is_active, students, attendance, notifications, parent_notifications,
                   notification_logs, last, records, stats>>

\* One Attendance.objects.create of the loop.  An IntegrityError leaves the
\* view (nothing catches it): the rows created so far stay, no notification is
\* sent, the request fails.
AutoMarkInsert ==
    /\ am # Idle
    /\ am.todo # <<>>
    /\ LET ins == Create(attendance, AbsentRow(attendance, am.session, Head(am.todo)))
       IN IF ins.ok
          THEN /\ attendance' = ins.rows
               /\ am' = [am EXCEPT !.todo = Tail(@), !.count = @ + 1]
               /\ UNCHANGED last
          ELSE /\ UNCHANGED attendance
               /\ am' = Idle
               /\ last' = Response("auto_mark_absentees", "error", am.session,
                                   Head(am.todo), FALSE, am.count, 0)
    /\ UNCHANGED <<is_active, students, notifications, parent_notifications,
                   notification_logs, nops, records, stats>>

\* After the loop: send_absentee_notifications(session) and the response.
AutoMarkFinish ==
    /\ am # Idle
    /\ am.todo = <<>>
    /\ Notified(SendAbsenteeNotifications(am.session, attendance, Now))
    /\ last' = Response("auto_mark_absentees", "ok", am.session, Null, FALSE, am.count, 0)
    /\ am' = Idle
    /\ UNCHANGED <<is_active, students, attendance, nops, records, stats>>

NextConc ==
    \/ Next
    \/ \E s \in ClassSessions : AutoMarkQuery(s)
    \/ AutoMarkInsert
    \/ AutoMarkFinish

SpecConc == Init /\ [][NextConc]_vars

\* ------------------------------------------------- the aggregator on its own
\* A record set with the given numbers of present, absent, late and excused
\* records of course c1 and extra late records of course c2.
RecordSet(np, na, nl, ne, extra) ==
    {[id |-> i, course |-> "c1",
      status |-> IF i <= np THEN "present"
                 ELSE IF i <= np + na THEN "absent"
                 ELSE IF i <= np + na + nl THEN "late" ELSE "excused"]
        : i \in 1..(np + na + nl + ne)}
    \cup {[id |-> np + na + nl + ne + i, course |-> "c2", status |-> "late"]
            : i \in 1..extra}

InitStats ==
    /\ is_active = [s \in Sessions |-> TRUE]
    /\ students = [c \in Courses |-> IF c = "c1" THEN {"s1", "s2", "s3"} ELSE {"s1"}]
    /\ attendance = {}
    /\ notifications = {}
    /\ parent_notifications = {}
    /\ notification_logs = {}
    /\ last = NoRequest
    /\ nops = 0
    /\ am = Idle
    /\ stats = NoStats
    /\ \E np \in 0..MaxTotal : \E na \in 0..(MaxTotal - np) :
         \E nl \in 0..(MaxTotal - np - na) : \E ne \in 0..(MaxTotal - np - na - nl) :
         \E extra \in 0..(IF np + na + nl + ne < MaxTotal THEN 1 ELSE 0) :
            records = RecordSet(np, na, nl, ne, extra)

\* GET .../sessions/<id>/stats/
StatsView ==
    /\ stats' = SessionStats(records)
    /\ UNCHANGED <<is_active, students, attendance, notifications, parent_notifications,
                   notification_logs, last, nops, am, records>>

\* GET face-recognition/stats/<session_id>/
StatsRealtimeView ==
    /\ stats' = GetSessionStats(records)
    /\ UNCHANGED <<is_active, students, attendance, notifications, parent_notifications,
                   notification_logs, last, nops, am, records>>

\* GET .../students/<id>/attendance_stats/
AttendanceStatsView ==
    /\ stats' = AttendanceStats(records)
    /\ UNCHANGED <<is_active, students, attendance, notifications, parent_notifications,
                   notification_logs, last, nops, am, records>>

\* GET student/dashboard/
StudentDashboardView ==
    /\ stats' = StudentDashboard(records)
    /\ UNCHANGED <<is_active, students, attendance, notifications, parent_notifications,
                   notification_logs, last, nops, am, records>>

NextStats ==
    \/ StatsView
    \/ StatsRealtimeView
    \/ AttendanceStatsView
    \/ StudentDashboardView

SpecStats == InitStats /\ [][NextStats]_vars

\* ------------------------------------------------- low-attendance warnings
\* AutomatedAbsenteeDetector.attendance_threshold
attendance_threshold == 75
\* threshold of check_and_send_low_attendance_warnings
threshold == 75

\* Every row of the table, whoever the student is.
AllStudentsRows(rows, st) == rows

\* Attendance.objects.filter(student=student)
StudentRows(rows, st) == {r \in rows : r.student = st}

\* records.filter(session__course=course); no filter when no course is given
CourseRows(rows, c) ==
    IF c = Null THEN rows ELSE {r \in rows : SessionCourse[r.session] = c}

\* The comparison made with <= instead of <.
BelowOrAtThreshold(rows, limit) ==
    LET total == Cardinality(rows)
        present == CountStatus(rows, "present") + CountStatus(rows, "late")
    IN total > 0 /\ 100 * present <= limit * total

\* stats['total'] > 0 and (stats['present'] / stats['total']) * 100 < limit,
\* present counting the present and the late records.
BelowThreshold(rows, limit) ==
    LET total == Cardinality(rows)
        present == CountStatus(rows, "present") + CountStatus(rows, "late")
    IN total > 0 /\ 100 * present < limit * total

\* AutomatedAbsenteeDetector.check_low_attendance_students(course) as reported
\* by low_attendance_report: the students and their rounded percentages.
CheckLowAttendanceStudents(rows, c) ==
    LET pool == IF c = Null THEN ActiveStudents ELSE ActiveStudents \cap students[c]
    IN {[student |-> st,
         attendance_percentage |->
             LET mine == CourseRows(StudentRows(rows, st), c)
             IN Round1(CountStatus(mine, "present") + CountStatus(mine, "late"),
                       Cardinality(mine))]
          : st \in {x \in pool :
                      BelowThreshold(CourseRows(StudentRows(rows, x), c),
                                     attendance_threshold)}}

\* face_recognition.views.low_attendance_report
LowAttendanceReport(c) ==
    /\ nops < MaxOps
    /\ nops' = nops + 1
    /\ stats' = [view |-> "low_attendance_report", course |-> c,
                 students |-> CheckLowAttendanceStudents(attendance, c),
                 count |-> Cardinality(CheckLowAttendanceStudents(attendance, c))]
    /\ last' = Response("low_attendance_report", "ok", Null, Null, FALSE,
                        Cardinality(CheckLowAttendanceStudents(attendance, c)), 0)
    /\ UNCHANGED <<is_active, students, attendance, notifications, parent_notifications,
                   notification_logs, am, records>>

\* send_low_attendance_warning skipping a student that has a low_attendance
\* Notification already.
SendLowAttendanceWarningOnce(st, T) ==
    IF \E n \in T.n : n.student = st /\ n.notification_type = "low_attendance"
    THEN T
    ELSE Tables(T.n \cup {[id |-> Cardinality(T.n) + 1, student |-> st,
                           notification_type |-> "low_attendance", attendance |-> NoId,
                           send_email |-> TRUE, send_sms |-> TRUE, send_push |-> TRUE,
                           is_sent |-> TRUE, email_sent |-> TRUE,
                           sms_sent |-> st \in WithPhone, push_sent |-> TRUE]},
                T.p, T.l)

\* send_low_attendance_warning(student, percentage, threshold) for a
\* percentage below the threshold.
SendLowAttendanceWarning(st, T) ==
    LET n0 == [id |-> Cardinality(T.n) + 1, student |-> st,
               notification_type |-> "low_attendance", attendance |-> NoId,
               send_email |-> TRUE, send_sms |-> TRUE, send_push |-> TRUE,
               is_sent |-> FALSE, email_sent |-> FALSE, sms_sent |-> FALSE,
               push_sent |-> FALSE]
        s1 == SimulateSendNotification(n0, T.l)
        p0 == [id |-> Cardinality(T.p) + 1, student |-> st,
               notification_type |-> "low_attendance", email_sent |-> FALSE,
               sms_sent |-> FALSE]
        s2 == SimulateSendParentNotification(p0, s1.logs)
    IN IF st \in WithParent
       THEN Tables(T.n \cup {s1.notification}, T.p \cup {s2.notification}, s2.logs)
       ELSE Tables(T.n \cup {s1.notification}, T.p, s1.logs)

\* The loop of check_and_send_low_attendance_warnings over the active
\* students, in roll_number order, from index i on.
RECURSIVE WarnLoop(_, _)
WarnLoop(i, acc) ==
    IF i > Len(StudentOrder) THEN acc
    ELSE LET st == StudentOrder[i] IN
         IF st \in ActiveStudents /\ BelowThreshold(StudentRows(attendance, st), threshold)
         THEN WarnLoop(i + 1, [T |-> SendLowAttendanceWarning(st, acc.T),
                               warnings_sent |-> acc.warnings_sent + 1])
         ELSE WarnLoop(i + 1, acc)

\* notifications.utils.check_and_send_low_attendance_warnings, the scheduled task
CheckAndSendLowAttendanceWarnings ==
    /\ Served
    /\ LET done == WarnLoop(1, [T |-> Now, warnings_sent |-> 0])
       IN /\ Notified(done.T)
          /\ last' = Response("check_and_send_low_attendance_warnings", "ok", Null, Null,
                              FALSE, done.warnings_sent, 0)
    /\ UNCHANGED <<is_active, students, attendance>>

\* A Student instance and a bare primary key, the two kinds of value
\* detect_session_absentees puts in its sets. A model instance hashes as its
\* primary key but equals only another model instance, never an integer.
StudentInstance(st) == <<"Student", st>>
PrimaryKey(st) == <<"pk", st>>

\* AttendanceAIEngine.detect_session_absentees(session): the set of enrolled
\* Student instances minus the set of the primary keys, from
\* values_list('student', flat=True), of the students marked present or late.
DetectSessionAbsentees(rows, s) ==
    LET enrolled_students == {StudentInstance(st) : st \in EnrolledActive(s)}
        present_students ==
            {PrimaryKey(r.student) :
                r \in {a \in rows : a.session = s /\ a.status \in {"present", "late"}}}
        absent_students == enrolled_students \ present_students
    IN {e[2] : e \in absent_students}

\* A call of detect_session_absentees for session s.
DetectSessionAbsenteesCall(s) ==
    /\ nops < MaxOps
    /\ nops' = nops + 1
    /\ stats' = [view |-> "detect_session_absentees", session |-> s,
                 absent_students |-> DetectSessionAbsentees(attendance, s)]
    /\ last' = Response("detect_session_absentees", "ok", s, Null, FALSE,
                        Cardinality(DetectSessionAbsentees(attendance, s)), 0)
    /\ UNCHANGED <<is_active, students, attendance, notifications, parent_notifications,
                   notification_logs, am, records>>

\* Marking through the API, the scheduled warnings, the report and the
\* absentee detection.
NextWarn ==
    \/ \E s \in Sessions, st \in MarkStudents, status \in MarkStatuses :
          MarkAttendance(s, st, status, "gps")
    \/ CheckAndSendLowAttendanceWarnings
    \/ \E c \in Courses \cup {Null} : LowAttendanceReport(c)
    \/ \E s \in Sessions : DetectSessionAbsenteesCall(s)

SpecWarn == Init /\ [][NextWarn]_vars

\* ------------------------------------------- failures in the notification step
\* Where the notification step raises: at Notification.objects.create, or at
\* the NotificationLog.objects.create of the email or of the push channel.
RaisingFaults == {"create", "email", "push"}
ChannelFaults == {"email", "push"}

\* Notification.objects.create and _simulate_send_notification for an absent
\* row, with the exception raised at f: [T, raised] is what the tables hold
\* when the exception leaves the sender.  The Notification row is inserted by
\* create; its flags are written by the save() at the end of the dispatch only,
\* which a channel failure does not reach; nothing catches the exception per
\* channel, and no log with a status other than 'sent' is written.
CreateAbsenceNotificationRaising(row, T, f) ==
    LET n0 == [id |-> Cardinality(T.n) + 1, student |-> row.student,
               notification_type |-> "absence", attendance |-> row.id,
               send_email |-> TRUE, send_sms |-> FALSE, send_push |-> TRUE,
               is_sent |-> FALSE, email_sent |-> FALSE, sms_sent |-> FALSE,
               push_sent |-> FALSE]
    IN IF f = "create" THEN [T |-> T, raised |-> TRUE]
       ELSE IF f = "email"
       THEN [T |-> Tables(T.n \cup {n0}, T.p, T.l), raised |-> TRUE]
       ELSE [T |-> Tables(T.n \cup {n0}, T.p,
                          T.l \cup LogRows(T.l, n0.id, NoId, <<"email">>)),
             raised |-> TRUE]

\* send_single_absentee_notification(attendance) with the failure f
SendSingleRaising(row, T, f) ==
    IF row.status # "absent" \/ AbsenceNotificationExists(row, T)
    THEN [T |-> T, raised |-> FALSE]
    ELSE CreateAbsenceNotificationRaising(row, T, f)

\* send_absentee_notifications(session) with the failure f in the dispatch of
\* the first record of the loop; the exception ends the loop.
SendAbsenteeNotificationsRaising(s, rows, T, f) ==
    LET todo == {r \in rows : r.session = s /\ r.status = "absent"} IN
    IF todo = {} THEN [T |-> T, raised |-> FALSE]
    ELSE CreateAbsenceNotificationRaising(
             CHOOSE r \in todo : \A q \in todo : q.id <= r.id, T, f)

\* api.views.mark_attendance marking absent, the notification step raising:
\* the inner except logs the failure and the success response follows.
MarkAttendanceNotifyRaises(s, st, f) ==
    /\ Served
    /\ st \in Students
    /\ Eligibility(s, st) = "ok"
    /\ UNCHANGED <<is_active, students>>
    /\ LET up == UpdateOrCreate(attendance, s, st,
                     [status |-> "absent", verification_method |-> "mobile_gps",
                      marked_by |-> RequestUser, location |-> "gps",
                      face_confidence |-> Null, notes |-> ""],
                     FreshRow(attendance, s, st))
           sent == SendSingleRaising(up.row, Now, f)
       IN /\ sent.raised
          /\ attendance' = up.rows
          /\ Notified(sent.T)
          /\ last' = Response("mark_attendance", "ok", s, st, up.created, 0, 0)

\* api.views.bulk_mark_attendance, the notification step raising: the except
\* around send_absentee_notifications logs the failure, the response follows.
BulkMarkAttendanceNotifyRaises(s, data, f) ==
    /\ Served
    /\ is_active[s]
    /\ UNCHANGED <<is_active, students>>
    /\ LET done == BulkLoop(s, data, 1, [rows |-> attendance, results |-> 0,
                                         errors |-> 0])
           sent == SendAbsenteeNotificationsRaising(s, done.rows, Now, f)
       IN /\ sent.raised
          /\ attendance' = done.rows
          /\ Notified(sent.T)
          /\ last' = Response("bulk_mark_attendance", "ok", s, Null, FALSE,
                              done.results, done.errors)

\* attendance.views.mark_attendance, POST, the notification step raising:
\* the rows are saved one by one before it, the call is in no try, the
\* exception leaves the view and the request ends as a server error.
WebMarkAttendanceNotifyRaises(s, form, f) ==
    /\ Served
    /\ UNCHANGED <<is_active, students>>
    /\ LET done == FormLoop(s, form, {r \in attendance : r.session = s}, 1,
                            [rows |-> attendance, ok |-> TRUE])
           sent == SendAbsenteeNotificationsRaising(s, done.rows, Now, f)
       IN /\ done.ok
          /\ sent.raised
          /\ attendance' = done.rows
          /\ Notified(sent.T)
          /\ last' = Response("web_mark_attendance", "error", s, Null, FALSE, 0, 0)

\* attendance.views.update_attendance_ajax changing a row to absent, the
\* notification step raising: attendance.save() is done, the except of the
\* view answers success False with status 400.
UpdateAttendanceAjaxNotifyRaises(id, f) ==
    /\ Served
    /\ UNCHANGED <<is_active, students>>
    /\ \E old \in attendance :
          /\ old.id = id
          /\ old.status # "absent"
          /\ LET new == [old EXCEPT !.status = "absent"]
                 sent == SendSingleRaising(new, Now, f)
             IN /\ sent.raised
                /\ attendance' = (attendance \ {old}) \cup {new}
                /\ Notified(sent.T)
                /\ last' = Response("update_attendance_ajax", "error", old.session,
                                    old.student, FALSE, 0, 0)

\* face_recognition.views.auto_mark_absentees, the notification step raising:
\* the rows are created before it, the call is in no try, the exception
\* leaves the view and the request ends as a server error.
AutoMarkAbsenteesNotifyRaises(s, f) ==
    /\ Served
    /\ UNCHANGED <<is_active, students>>
    /\ LET done == AbsentLoop(s, Unmarked(attendance, s), 1,
                              [rows |-> attendance, count |-> 0, ok |-> TRUE])
           sent == SendAbsenteeNotificationsRaising(s, done.rows, Now, f)
       IN /\ done.ok
          /\ sent.raised
          /\ attendance' = done.rows
          /\ Notified(sent.T)
          /\ last' = Response("auto_mark_absentees", "error", s, Null, FALSE,
                              done.count, 0)

\* attendance_data of the bulk requests whose notification step raises
FaultBulkData == {<<>>, <<[student_id |-> "s2", status |-> "absent"]>>}

\* A request whose notification step raises at f.
NotifyRaises(f) ==
    \/ \E s \in ClassSessions, st \in MarkStudents : MarkAttendanceNotifyRaises(s, st, f)
    \/ \E s \in ClassSessions, data \in FaultBulkData : BulkMarkAttendanceNotifyRaises(s, data, f)
    \/ \E s \in ClassSessions, form \in Forms : WebMarkAttendanceNotifyRaises(s, form, f)
    \/ \E id \in 1..Cardinality(attendance) : UpdateAttendanceAjaxNotifyRaises(id, f)
    \/ \E s \in ClassSessions : AutoMarkAbsenteesNotifyRaises(s, f)

\* The requests that send absence notifications, each with and without a
\* failure in the notification step, and face recognition marking present.
NextFault ==
    \/ \E s \in ClassSessions, st \in MarkStudents, status \in MarkStatuses :
          MarkAttendance(s, st, status, "gps")
    \/ \E s \in ClassSessions, st \in FaceStudents : FaceRecognitionMark(s, st)
    \/ \E s \in ClassSessions : AutoMarkAbsentees(s)
    \/ \E id \in 1..(Cardinality(attendance) + 1), status \in AjaxStatuses :
          UpdateAttendanceAjax(id, status)
    \/ \E f \in RaisingFaults : NotifyRaises(f)

SpecFault == Init /\ [][NextFault]_vars

\* ------------------------------------------ the low-attendance filter alone
\* records is read as Attendance.objects.filter(student=student), the records
\* of the student the filter looks at.
MaxRecords == 4
MaxWarnings == 1

\* records.filter(session__course=course) on the student's records; no filter
\* when no course is given
RecordsInCourse(rows, c) == IF c = Null THEN rows ELSE {r \in rows : r.course = c}

\* send_low_attendance_warning(student, percentage, threshold), the percentage
\* being present / total * 100: nothing is created when it is not below limit.
SendLowAttendanceWarningAt(st, present, total, limit, T) ==
    IF 100 * present >= limit * total THEN T ELSE SendLowAttendanceWarning(st, T)

InitLow ==
    /\ is_active = [s \in Sessions |-> TRUE]
    /\ students = [c \in Courses |-> IF c = "c1" THEN {"s1", "s2", "s3"} ELSE {"s1"}]
    /\ attendance = {}
    /\ notifications = {}
    /\ parent_notifications = {}
    /\ notification_logs = {}
    /\ last = NoRequest
    /\ nops = 0
    /\ am = Idle
    /\ stats = NoStats
    /\ \E np \in 0..MaxRecords : \E na \in 0..(MaxRecords - np) :
         \E nl \in 0..(MaxRecords - np - na) : \E ne \in 0..(MaxRecords - np - na - nl) :
         \E extra \in 0..(IF np + na + nl + ne < MaxRecords THEN 1 ELSE 0) :
            records = RecordSet(np, na, nl, ne, extra)

\* One pass of the loop of check_low_attendance_students(course) for student
\* st: whether st is appended to the list.
CheckLowAttendanceStudent(st, c) ==
    /\ stats' = [view |-> "check_low_attendance_students", student |-> st, course |-> c,
                 listed |-> /\ st \in ActiveStudents
                            /\ (c = Null \/ st \in students[c])
                            /\ BelowThreshold(RecordsInCourse(records, c),
                                              attendance_threshold)]
    /\ UNCHANGED <<is_active, students, attendance, notifications, parent_notifications,
                   notification_logs, last, nops, am, records>>

\* A call of send_low_attendance_warning for student st with the percentage
\* of the student's records and the default threshold.
SendLowAttendanceWarningCall(st) ==
    /\ records # {}
    /\ Cardinality(notifications) < MaxWarnings
    /\ LET T == SendLowAttendanceWarningAt(st,
                    CountStatus(records, "present") + CountStatus(records, "late"),
                    Cardinality(records), threshold, Now)
       IN /\ Notified(T)
          /\ last' = Response("send_low_attendance_warning",
                              IF T = Now THEN "none" ELSE "ok", Null, st, T # Now, 0, 0)
    /\ UNCHANGED <<is_active, students, attendance, nops, am, records, stats>>

NextLow ==
    \/ \E st \in Students, c \in Courses \cup {Null} : CheckLowAttendanceStudent(st, c)
    \/ \E st \in ActiveStudents : SendLowAttendanceWarningCall(st)

SpecLow == InitLow /\ [][NextLow]_vars

\* ------------------------------------------------------------------
\* The single-mark paths alone: the API mark_attendance and
\* update_attendance_ajax, the two callers of
\* send_single_absentee_notification.
NextSingle ==
    \/ \E s \in Sessions, st \in MarkStudents, status \in MarkStatuses :
          MarkAttendance(s, st, status, "gps")
    \/ \E id \in 1..(Cardinality(attendance) + 1), status \in AjaxStatuses :
          UpdateAttendanceAjax(id, status)

SpecSingle == Init /\ [][NextSingle]_vars

\* ------------------------------------------------------------------
\* The statistics of one session, after marks through the API and
\* update_attendance_ajax.

\* session_detail: the same aggregate, the percentage computed when total > 0
\* and 0 otherwise.
SessionDetail(rows) ==
    LET present == CountStatus(rows, "present")
        late == CountStatus(rows, "late")
    IN [view |-> "session_detail", total |-> Cardinality(rows), present |-> present,
        absent |-> CountStatus(rows, "absent"), late |-> late,
        excused |-> CountStatus(rows, "excused"),
        percentage |-> IF Cardinality(rows) > 0
                       THEN Round1(present + late, Cardinality(rows)) ELSE 0]

\* The status values update_attendance_ajax is sent: it stores
\* request.POST.get('status') as it comes, and save() does not check the
\* value against STATUS_CHOICES, so a value outside the four is stored too.
PostedStatuses == {"absent", "late", "holiday"}

\* GET .../sessions/<id>/stats/ for session s
SessionStatsView(s) ==
    /\ stats' = SessionStats({r \in attendance : r.session = s})
    /\ UNCHANGED <<is_active, students, attendance, notifications, parent_notifications,
                   notification_logs, last, nops, am, records>>

\* GET face-recognition/stats/<session_id>/ for session s
SessionStatsRealtimeView(s) ==
    /\ stats' = GetSessionStats({r \in attendance : r.session = s})
    /\ UNCHANGED <<is_active, students, attendance, notifications, parent_notifications,
                   notification_logs, last, nops, am, records>>

\* GET session/<session_id>/ for session s
SessionDetailView(s) ==
    /\ stats' = SessionDetail({r \in attendance : r.session = s})
    /\ UNCHANGED <<is_active, students, attendance, notifications, parent_notifications,
                   notification_logs, last, nops, am, records>>

NextSession ==
    \/ \E s \in Sessions, st \in MarkStudents, status \in MarkStatuses :
          MarkAttendance(s, st, status, "gps")
    \/ \E id \in 1..(Cardinality(attendance) + 1), status \in PostedStatuses :
          UpdateAttendanceAjax(id, status)
    \/ \E s \in Sessions : SessionStatsView(s)
    \/ \E s \in Sessions : SessionStatsRealtimeView(s)
    \/ \E s \in Sessions : SessionDetailView(s)

SpecSession == Init /\ [][NextSession]_vars

\* =================================================================== claims
\* The tables a mark request may write.
Ledger == <<attendance, notifications, parent_notifications, notification_logs>>

\* The mark paths: the requests that create or overwrite Attendance rows.
MarkPaths == {"mark_attendance", "bulk_mark_attendance", "face_recognition_mark",
              "web_mark_attendance", "process_face_image", "batch_face_recognition",
              "auto_mark_absentees"}

\* C1: in every reachable state, whatever mark requests were served and however
\* an auto_mark_absentees call was interleaved with them, no two Attendance
\* rows share the same (session, student) pair.
C1_Uniqueness ==
    \A r1, r2 \in attendance :
        (r1.session = r2.session /\ r1.student = r2.student) => r1 = r2

\* C1 witness: an auto_mark_absentees insert met a row another mark request had
\* written for the same pair in the meantime, and the pair still has one row.
C1_Witness ==
    /\ last.op = "auto_mark_absentees"
    /\ last.result = "error"
    /\ Cardinality(RowsOf(attendance, last.session, last.student)) = 1
    /\ Cardinality(attendance) >= 2

C3_InactiveSessionRejected ==
    [][\A s \in Sessions, st \in MarkStudents, status \in MarkStatuses :
          (MarkAttendance(s, st, status, "gps") /\ ~is_active[s]) =>
             /\ UNCHANGED Ledger
             /\ last'.result # "ok"
             /\ (st \in Students => last'.result = "session_not_active")]_vars

\* C3 witness: a student on the roster was refused because the session is closed.
C3_Witness ==
    /\ last.op = "mark_attendance"
    /\ last.result = "session_not_active"
    /\ ~is_active[last.session]
    /\ Enrolled(last.session, last.student)

\* C4: a mark_attendance call for a student who is not on the roster of the
\* session's course creates or changes no Attendance row and no notification
\* and does not succeed; on a session that passes the active check (the check
\* made first) the answer is the 'not enrolled' error.
C4_NotEnrolledRejected ==
    [][\A s \in Sessions, st \in Students, status \in MarkStatuses :
          (MarkAttendance(s, st, status, "gps") /\ ~Enrolled(s, st)) =>
             /\ UNCHANGED Ledger
             /\ last'.result \in {"not_enrolled", "session_not_active"}
             /\ (is_active[s] => last'.result = "not_enrolled")]_vars

\* C4 witness: a student outside the roster was refused on an open session.
C4_Witness ==
    /\ last.op = "mark_attendance"
    /\ last.result = "not_enrolled"
    /\ is_active[last.session]
    /\ ~Enrolled(last.session, last.student)
    /\ last.student \in Students

\* C5 (as claimed): no mark path creates or modifies an Attendance row of a
\* session whose is_active flag is false when the request is served.
C5_ActiveCheckGatesEveryPath ==
    [][(attendance' # attendance /\ last'.op \in MarkPaths) =>
          \A r \in attendance' \ attendance : is_active[r.session]]_vars

\* C6 (as claimed): whenever a mark path creates or updates an Attendance row,
\* its student is on the roster of the session's course when the request is
\* served.
C6_EnrollmentCheckGatesEveryPath ==
    [][(attendance' # attendance /\ last'.op \in MarkPaths) =>
          \A r \in attendance' \ attendance : Enrolled(r.session, r.student)]_vars

\* attendance_data[i] names a student that does not exist or is not enrolled.
BadItem(s, data, i) ==
    data[i].student_id \notin Students \/ ~Enrolled(s, data[i].student_id)

\* C7: bulk_mark_attendance on an active session answers success and processes
\* every item: results and errors together have one entry per item, errors one
\* per item whose student is not enrolled or does not exist; such an item
\* writes no row, every other item leaves its pair with exactly one row that
\* carries the status of the student's last item, and no other row changes.
C7_BulkCollectsErrors ==
    [][\A s \in ClassSessions, data \in BulkData :
          (last'.op = "bulk_mark_attendance" /\ is_active[s]
             /\ BulkMarkAttendance(s, data)) =>
             /\ last'.result = "ok"
             /\ last'.count + last'.errors = Len(data)
             /\ last'.errors = Cardinality({i \in 1..Len(data) : BadItem(s, data, i)})
             /\ \A i \in 1..Len(data) :
                   ~BadItem(s, data, i) =>
                      /\ Cardinality(RowsOf(attendance', s, data[i].student_id)) = 1
                      /\ (\A j \in (i + 1)..Len(data) :
                              data[j].student_id # data[i].student_id) =>
                            \A r \in RowsOf(attendance', s, data[i].student_id) :
                               r.status = data[i].status
             /\ \A r \in (attendance' \ attendance) \cup (attendance \ attendance') :
                   /\ r.session = s
                   /\ \E i \in 1..Len(data) :
                         ~BadItem(s, data, i) /\ data[i].student_id = r.student]_vars

\* C7 witness: a bulk request answered success with one result (its row is in
\* the ledger) and one error.
C7_Witness ==
    /\ last.op = "bulk_mark_attendance"
    /\ last.result = "ok"
    /\ last.count = 1
    /\ last.errors = 1
    /\ \E r \in attendance : r.session = last.session /\ r.verification_method = "manual"

\* q (tenths of a percent) is 100 * count / total rounded to one decimal place,
\* an exact half going to the even tenth.
NearestTenthToEven(q, count, total) ==
    LET d == 1000 * count - q * total
        dist == IF d < 0 THEN 0 - d ELSE d
    IN /\ 2 * dist <= total
       /\ (2 * dist = total => q % 2 = 0)

\* q (tenths of a percent) is 100 * count / total rounded half-up to one
\* decimal place.
NearestTenthHalfUp(q, count, total) ==
    /\ 2 * q * total <= 2000 * count + total
    /\ 2000 * count + total < 2 * (q + 1) * total

\* The views that answer the statistics of one session.
SessionViews == {"stats", "get_session_stats"}

\* C8: for a session or a student without Attendance records every aggregator
\* answers total 0, present 0, absent 0, late 0 (and excused 0 where it is
\* reported) and percentage 0.
C8_EmptyRecordSet ==
    (records = {} /\ stats.view # "none") =>
        /\ stats.total = 0
        /\ stats.present = 0
        /\ stats.absent = 0
        /\ stats.late = 0
        /\ stats.percentage = 0
        /\ (stats.view \in SessionViews => stats.excused = 0)

\* C8 witness: the session statistics of an empty record set have been served.
C8_Witness ==
    /\ records = {}
    /\ stats.view = "stats"
    /\ stats.total = 0
    /\ stats.percentage = 0

C10_CourseWiseCountsLate ==
    stats.view = "attendance_stats" =>
        \A c \in Courses :
            LET rows == {r \in records : r.course = c}
                total == IF rows = {} THEN 1 ELSE Cardinality(rows)
            IN NearestTenthToEven(stats.course_wise_stats[c].percentage,
                                  CountStatus(rows, "present") + CountStatus(rows, "late"),
                                  total)

\* The Attendance rows of one session.
SessionRows(rows, s) == {r \in rows : r.session = s}

\* C11: auto_mark_absentees creates rows for exactly the active students
\* enrolled in the session's course that have no Attendance row in the session,
\* whatever the status of the rows that exist; and in every reachable state the
\* session statistics count one record per student that has a row, each in one
\* status bucket, so that an enrolled student without a row is in no bucket and
\* not in total.
C11_UnmarkedIsEnrolledMinusMarked ==
    /\ [][\A s \in ClassSessions :
             (last'.op = "auto_mark_absentees" /\ AutoMarkAbsentees(s)) =>
                /\ last'.result = "ok"
                /\ {r.student : r \in attendance' \ attendance}
                     = {st \in students[SessionCourse[s]] \cap ActiveStudents :
                           \A r \in attendance : ~(r.session = s /\ r.student = st)}
                /\ \A r \in attendance' \ attendance : r.session = s]_vars
    /\ [](\A s \in Sessions :
             LET st == SessionStats(SessionRows(attendance, s)) IN
             /\ st.total = Cardinality({x \in Students :
                                          \E r \in attendance :
                                             r.session = s /\ r.student = x})
             /\ st.present + st.absent + st.late + st.excused = st.total)

\* C11 witness: auto_mark_absentees has marked one student of a session in
\* which another student was marked before and an enrolled student (inactive)
\* stays without a row: the statistics count two records.
C11_Witness ==
    /\ last.op = "auto_mark_absentees"
    /\ last.result = "ok"
    /\ last.count = 1
    /\ \E r \in attendance : r.session = last.session /\ r.notes # "Auto-marked as absent"
    /\ \E st \in students[SessionCourse[last.session]] :
          RowsOf(attendance, last.session, st) = {}
    /\ SessionStats(SessionRows(attendance, last.session)).total = 2

\* The students of the active roster of s without an Attendance row in s.
WithoutRow(rows, s) ==
    {st \in students[SessionCourse[s]] \cap ActiveStudents :
        \A r \in rows : ~(r.session = s /\ r.student = st)}

\* C12: a call of auto_mark_absentees leaves each student that was unmarked
\* with exactly one row, an absent one, and answers their number; a second call
\* that follows it directly on the same session answers 0 and creates or
\* changes no Attendance row.
C12_AutoMarkIdempotent ==
    [][\A s \in ClassSessions :
          (last'.op = "auto_mark_absentees" /\ AutoMarkAbsentees(s)) =>
             /\ last'.result = "ok"
             /\ last'.count = Cardinality(WithoutRow(attendance, s))
             /\ \A st \in WithoutRow(attendance, s) :
                   /\ Cardinality(RowsOf(attendance', s, st)) = 1
                   /\ \A r \in RowsOf(attendance', s, st) : r.status = "absent"
             /\ (last.op = "auto_mark_absentees" /\ last.result = "ok"
                   /\ last.session = s) =>
                   /\ last'.count = 0
                   /\ attendance' = attendance]_vars

\* C12 witness: a call that answered 0 on a session all of whose rows are
\* auto-marked ones, two at least: the call before it created them.
C12_Witness ==
    /\ last.op = "auto_mark_absentees"
    /\ last.result = "ok"
    /\ last.count = 0
    /\ nops = 2
    /\ Cardinality(SessionRows(attendance, last.session)) = 2
    /\ \A r \in SessionRows(attendance, last.session) :
          r.notes = "Auto-marked as absent" /\ r.status = "absent"

\* C13: auto_mark_absentees leaves every Attendance row that existed before
\* the call as it was, in all its fields and whatever its status; the rows it
\* adds are rows of students that had none in the session.
C13_AutoMarkFrame ==
    [][\A s \in ClassSessions :
          (last'.op = "auto_mark_absentees" /\ AutoMarkAbsentees(s)) =>
             /\ attendance \subseteq attendance'
             /\ \A r \in attendance' \ attendance :
                   /\ r.session = s
                   /\ RowsOf(attendance, s, r.student) = {}]_vars

\* C13 witness: after the call the session holds a present row written by
\* face recognition next to a row the call added.
C13_Witness ==
    /\ last.op = "auto_mark_absentees"
    /\ last.result = "ok"
    /\ last.count >= 1
    /\ \E r \in SessionRows(attendance, last.session) :
          r.status = "present" /\ r.verification_method = "face_recognition"
    /\ \E r \in SessionRows(attendance, last.session) : r.notes = "Auto-marked as absent"

\* C14: auto_mark_absentees answers the number of students that were unmarked
\* before the call, and every row it creates has status absent, verification
\* method manual, the notes 'Auto-marked as absent' and the calling user as
\* marked_by; when the session held one present row and one student of the
\* active roster was unmarked, the call answers 1 and the session statistics
\* become total 2, present 1, absent 1, late 0, excused 0, percentage 50.0.
C14_AutoMarkResult ==
    [][\A s \in ClassSessions :
          (last'.op = "auto_mark_absentees" /\ AutoMarkAbsentees(s)) =>
             /\ last'.count = Cardinality(WithoutRow(attendance, s))
             /\ Cardinality(attendance' \ attendance) = last'.count
             /\ \A r \in attendance' \ attendance :
                   /\ r.status = "absent"
                   /\ r.verification_method = "manual"
                   /\ r.notes = "Auto-marked as absent"
                   /\ r.marked_by = RequestUser
             /\ (/\ Cardinality(SessionRows(attendance, s)) = 1
                 /\ \A r \in SessionRows(attendance, s) : r.status = "present"
                 /\ Cardinality(WithoutRow(attendance, s)) = 1) =>
                   /\ last'.count = 1
                   /\ GetSessionStats(SessionRows(attendance', s))
                        = [view |-> "get_session_stats", total |-> 2, present |-> 1,
                           absent |-> 1, late |-> 0, excused |-> 0, percentage |-> 500]]_vars

\* C14 witness: the call answered 1 on a session that now holds one present
\* and one auto-marked absent row; its statistics show 50.0 percent.
C14_Witness ==
    /\ last.op = "auto_mark_absentees"
    /\ last.result = "ok"
    /\ last.count = 1
    /\ \E a, b \in SessionRows(attendance, last.session) :
          /\ SessionRows(attendance, last.session) = {a, b}
          /\ a.status = "present"
          /\ b.status = "absent" /\ b.notes = "Auto-marked as absent"
          /\ b.marked_by = RequestUser
    /\ GetSessionStats(SessionRows(attendance, last.session)).percentage = 500

\* The absence Notifications of one Attendance row.
AbsenceNotifications(ns, row) ==
    {n \in ns : /\ n.student = row.student
                /\ n.attendance = row.id
                /\ n.notification_type = "absence"}

\* The NotificationLog rows of one Notification on one channel.
ChannelLogs(logs, n, channel) ==
    {l \in logs : l.notification = n.id /\ l.channel = channel}

\* C15: when API mark_attendance marks a student absent, which calls
\* send_single_absentee_notification for the row, and the row has no absence
\* Notification yet, exactly one is created, with exactly one NotificationLog
\* for each enabled channel (email and push) and none for SMS; when the row
\* has one already, the call creates nothing in the three notification tables.
\* Hence two calls for the same absent row, in every reachable state, leave
\* what one call leaves.
C15_SingleNotificationDeduplicated ==
    /\ [][\A s \in Sessions, st \in MarkStudents :
             (/\ last'.op = "mark_attendance"
              /\ last'.result = "ok"
              /\ MarkAttendance(s, st, "absent", "gps")) =>
                \A row \in RowsOf(attendance', s, st) :
                   IF AbsenceNotifications(notifications, row) = {}
                   THEN /\ Cardinality(AbsenceNotifications(notifications', row)) = 1
                        /\ Cardinality(notifications') = Cardinality(notifications) + 1
                        /\ \A n \in AbsenceNotifications(notifications', row) :
                              /\ Cardinality(ChannelLogs(notification_logs', n, "email")) = 1
                              /\ Cardinality(ChannelLogs(notification_logs', n, "push")) = 1
                              /\ ChannelLogs(notification_logs', n, "sms") = {}
                   ELSE UNCHANGED <<notifications, parent_notifications,
                                    notification_logs>>]_vars
    /\ [](\A row \in attendance :
             SendSingleAbsenteeNotification(row, SendSingleAbsenteeNotification(row, Now))
               = SendSingleAbsenteeNotification(row, Now))

\* C15 witness: API mark_attendance has marked absent a row that existed; the
\* row has exactly one absence Notification, with one email and one push log,
\* and a further call for it creates nothing.
C15_Witness ==
    /\ last.op = "mark_attendance"
    /\ last.result = "ok"
    /\ ~last.created
    /\ \E row \in RowsOf(attendance, last.session, last.student) :
          /\ row.status = "absent"
          /\ Cardinality(AbsenceNotifications(notifications, row)) = 1
          /\ \A n \in AbsenceNotifications(notifications, row) :
                /\ Cardinality(ChannelLogs(notification_logs, n, "email")) = 1
                /\ Cardinality(ChannelLogs(notification_logs, n, "push")) = 1
          /\ SendSingleAbsenteeNotification(row, Now) = Now

\* C16 (as claimed): whatever requests were served, the bulk path
\* send_absentee_notifications among them, each absent Attendance row has
\* exactly one absence Notification.
C16_BulkNotificationDeduplicated ==
    \A row \in attendance :
       row.status = "absent" => Cardinality(AbsenceNotifications(notifications, row)) = 1


\* 1 when the channel was to be attempted, 0 when not.
Attempts(b) == IF b THEN 1 ELSE 0

\* C17: every student Notification has exactly one NotificationLog for each
\* attempted channel and none for the others, and its *_sent flags say which
\* were attempted: email iff send_email, push iff send_push, SMS iff send_sms
\* and the student has a phone number; an absence Notification has an email
\* log and a push log and no SMS log.
C17_OneLogPerAttemptedChannel ==
    \A n \in notifications :
       LET sms == n.send_sms /\ n.student \in WithPhone IN
       /\ Cardinality(ChannelLogs(notification_logs, n, "email")) = Attempts(n.send_email)
       /\ Cardinality(ChannelLogs(notification_logs, n, "push")) = Attempts(n.send_push)
       /\ Cardinality(ChannelLogs(notification_logs, n, "sms")) = Attempts(sms)
       /\ n.email_sent = n.send_email
       /\ n.push_sent = n.send_push
       /\ n.sms_sent = sms
       /\ n.notification_type = "absence" =>
             /\ ChannelLogs(notification_logs, n, "email") # {}
             /\ ChannelLogs(notification_logs, n, "push") # {}
             /\ ChannelLogs(notification_logs, n, "sms") = {}

\* C17 witness: an absence Notification with its email and push logs, a
\* low-attendance Notification of a student with a phone number with an SMS
\* log, and one of a student without a phone number with send_sms set and no
\* SMS log.
C17_Witness ==
    /\ \E n \in notifications :
          /\ n.notification_type = "absence"
          /\ ChannelLogs(notification_logs, n, "email") # {}
          /\ ChannelLogs(notification_logs, n, "push") # {}
    /\ \E n \in notifications :
          /\ n.notification_type = "low_attendance"
          /\ n.student \in WithPhone
          /\ n.sms_sent
          /\ Cardinality(ChannelLogs(notification_logs, n, "sms")) = 1
    /\ \E n \in notifications :
          /\ n.notification_type = "low_attendance"
          /\ n.student \notin WithPhone
          /\ n.send_sms /\ ~n.sms_sent
          /\ ChannelLogs(notification_logs, n, "sms") = {}

\* The requests that write Attendance rows and then send absence notifications.
NotifyingPaths == {"mark_attendance", "bulk_mark_attendance", "web_mark_attendance",
                   "update_attendance_ajax", "auto_mark_absentees"}

\* C18 (as claimed): when the notification step of a mark request raises, on
\* API mark_attendance, API bulk_mark_attendance, web mark_attendance,
\* update_attendance_ajax or auto_mark_absentees, the Attendance rows the
\* request wrote stay written and the caller gets a success result.
C18_NotificationFailureIsolated ==
    [][\A f \in RaisingFaults :
          (last'.op \in NotifyingPaths /\ NotifyRaises(f)) =>
             /\ last'.result = "ok"
             /\ \E r \in attendance' :
                   r.session = last'.session /\ r.status = "absent"]_vars

\* C19 (as claimed): when one channel of a dispatch fails, the Notification
\* being dispatched gets a NotificationLog with status failed for that channel,
\* and the other enabled channel is attempted and logged all the same.
C19_ChannelFailureIsolated ==
    [][\A f \in ChannelFaults :
          (last'.op \in NotifyingPaths /\ NotifyRaises(f)) =>
             \A n \in notifications' \ notifications :
                /\ \E l \in ChannelLogs(notification_logs', n, f) : l.status = "failed"
                /\ \A ch \in ChannelFaults \ {f} :
                      ChannelLogs(notification_logs', n, ch) # {}]_vars

\* The Attendance rows of student st, within course c when one is given.
RecordsOf(rows, st, c) ==
    {r \in rows : r.student = st /\ (c = Null \/ SessionCourse[r.session] = c)}

\* C20: low_attendance_report lists no student without an Attendance row
\* (within the course when a course is given), and
\* check_and_send_low_attendance_warnings creates no Notification and no
\* ParentNotification for a student without an Attendance row; the guard that
\* decides it rejects a student without rows for a threshold of 0, of 75 and
\* of 101 alike.
C20_NoRecordsNoWarning ==
    /\ [][\A c \in Courses \cup {Null} :
             (last'.op = "low_attendance_report" /\ LowAttendanceReport(c)) =>
                \A e \in stats'.students : RecordsOf(attendance, e.student, c) # {}]_vars
    /\ [][(last'.op = "check_and_send_low_attendance_warnings"
             /\ CheckAndSendLowAttendanceWarnings) =>
                /\ \A n \in notifications' \ notifications :
                      RecordsOf(attendance, n.student, Null) # {}
                /\ \A p \in parent_notifications' \ parent_notifications :
                      RecordsOf(attendance, p.student, Null) # {}]_vars
    /\ [](\A st \in Students, c \in Courses \cup {Null}, limit \in {0, 75, 101} :
             RecordsOf(attendance, st, c) = {} =>
                ~BelowThreshold(CourseRows(StudentRows(attendance, st), c), limit))

\* C20 witness: the report listed one student and the scheduled task warned
\* one, while an active student without any Attendance row is neither listed
\* nor warned.
C20_Witness ==
    /\ stats.view = "low_attendance_report"
    /\ stats.count = 1
    /\ last.op = "check_and_send_low_attendance_warnings"
    /\ last.count = 1
    /\ \E n \in notifications : n.notification_type = "low_attendance"
    /\ \E st \in ActiveStudents :
          /\ RecordsOf(attendance, st, Null) = {}
          /\ \A e \in stats.students : e.student # st
          /\ \A n \in notifications : n.student # st

\* C21 (as claimed): when an insert of auto_mark_absentees meets a row that
\* another mark request wrote for the same (session, student) after the call
\* had read the unmarked students, the call does not fail, and the pair ends
\* with exactly one row, which carries the status of the last writer, absent.
C21_ConcurrentMarksLastWriterWins ==
    [][(am # Idle /\ am.todo # <<>> /\ AutoMarkInsert) =>
          /\ ~(last'.op = "auto_mark_absentees" /\ last'.result = "error")
          /\ Cardinality(RowsOf(attendance', am.session, Head(am.todo))) = 1
          /\ \A r \in RowsOf(attendance', am.session, Head(am.todo)) :
                r.status = "absent"]_vars

\* C25 (as claimed): when an insert of auto_mark_absentees meets a row that
\* another mark request wrote for the student meanwhile, no second row is
\* created for the student and the batch goes on with the remaining unmarked
\* students.
C25_AutoMarkBatchNotAborted ==
    [][(/\ am # Idle
        /\ am.todo # <<>>
        /\ RowsOf(attendance, am.session, Head(am.todo)) # {}
        /\ AutoMarkInsert) =>
          /\ Cardinality(RowsOf(attendance', am.session, Head(am.todo))) = 1
          /\ am'.session = am.session
          /\ am'.todo = Tail(am.todo)]_vars

\* The paths on which a faculty member or a student re-marks by hand.
RemarkPaths == {"mark_attendance", "bulk_mark_attendance", "web_mark_attendance"}

\* C22 (as claimed): a row that existed and was re-marked through API
\* mark_attendance, bulk_mark_attendance or web mark_attendance holds, in
\* verification method, face confidence, location, notes and actor, the values
\* of the new mark and nothing of the earlier one: the method the path writes,
\* no face confidence, the location only when the API mark supplied it, the
\* notes of the request and the requesting user.
C22_RemarkOverwritesSixFields ==
    [][(last'.op \in RemarkPaths /\ last'.result = "ok") =>
          \A r \in attendance' \ attendance :
             (\E old \in attendance : old.id = r.id) =>
                /\ r.verification_method
                     = (IF last'.op = "mark_attendance" THEN "mobile_gps" ELSE "manual")
                /\ r.face_confidence = Null
                /\ r.location = (IF last'.op = "mark_attendance" THEN "gps" ELSE Null)
                /\ r.notes = ""
                /\ r.marked_by = RequestUser]_vars

\* Student st has a record and less than 75 percent of the records of st are
\* present or late.
LowOverall(rows, st) ==
    LET mine == {r \in rows : r.student = st}
        attended == {r \in mine : r.status \in {"present", "late"}}
    IN mine # {} /\ 100 * Cardinality(attended) < 75 * Cardinality(mine)

\* The low_attendance Notifications of student st.
LowAttendanceNotifications(ns, st) ==
    {n \in ns : n.student = st /\ n.notification_type = "low_attendance"}

\* C23: a run of check_and_send_low_attendance_warnings creates exactly one
\* new low_attendance Notification for each active student that has a record
\* and an overall percentage below 75, none for any other student and no
\* Notification of another type, and returns the number of these students;
\* this holds for every run, whatever earlier runs have created, so that n
\* runs over an unchanged ledger leave n such Notifications per student.
C23_SweepWarnsEveryRun ==
    [][(last'.op = "check_and_send_low_attendance_warnings"
          /\ CheckAndSendLowAttendanceWarnings) =>
             /\ \A st \in Students :
                   Cardinality(LowAttendanceNotifications(notifications', st))
                     = Cardinality(LowAttendanceNotifications(notifications, st))
                        + (IF st \in ActiveStudents /\ LowOverall(attendance, st)
                           THEN 1 ELSE 0)
             /\ \A n \in notifications' \ notifications :
                   n.notification_type = "low_attendance"
             /\ notifications \subseteq notifications'
             /\ last'.count = Cardinality({st \in ActiveStudents :
                                             LowOverall(attendance, st)})]_vars

\* C23 witness: two runs have warned the same student: the student has two
\* low_attendance Notifications and the last run answered 1.
C23_Witness ==
    /\ last.op = "check_and_send_low_attendance_warnings"
    /\ last.count = 1
    /\ \E st \in ActiveStudents :
          /\ LowOverall(attendance, st)
          /\ Cardinality(LowAttendanceNotifications(notifications, st)) = 2

\* The records of the student that count for course c (all when c is Null).
Counted(c) == {r \in records : c = Null \/ r.course = c}

\* The present and the late records among rows.
Attended(rows) == {r \in rows : r.status \in {"present", "late"}}

\* C24: check_low_attendance_students lists a student exactly when the
\* student is active, is on the roster of the course when a course is given,
\* has at least one record (of that course) and 100 * (present + late) / total
\* is strictly below 75: at exactly 75 percent the student is not listed; and
\* send_low_attendance_warning creates a Notification exactly when the
\* percentage it is called with is below the threshold, nothing at 75 or more.
C24_StrictLowAttendanceFilter ==
    /\ stats.view = "check_low_attendance_students" =>
          (stats.listed <=>
             /\ stats.student \in ActiveStudents
             /\ (stats.course = Null \/ stats.student \in students[stats.course])
             /\ Counted(stats.course) # {}
             /\ 100 * Cardinality(Attended(Counted(stats.course)))
                  < 75 * Cardinality(Counted(stats.course)))
    /\ last.op = "send_low_attendance_warning" =>
          /\ (notifications # {} <=>
                100 * Cardinality(Attended(records)) < 75 * Cardinality(records))
          /\ (notifications = {} =>
                parent_notifications = {} /\ notification_logs = {})

\* C24 witness: a student with three attended records of four, exactly 75
\* percent, was looked at and not listed, and the warning called for the
\* student created nothing.
C24_Witness ==
    /\ stats.view = "check_low_attendance_students"
    /\ stats.student \in ActiveStudents
    /\ stats.course = Null
    /\ Cardinality(records) = 4
    /\ Cardinality(Attended(records)) = 3
    /\ ~stats.listed
    /\ last.op = "send_low_attendance_warning"
    /\ last.student = stats.student
    /\ notifications = {}

\* C26: detect_session_absentees returns exactly the active students enrolled
\* in the session's course that have no present or late record in the
\* session; a student marked present or late is never returned.
C26_DetectedAbsenteesExcludePresent ==
    stats.view = "detect_session_absentees" =>
        stats.absent_students =
            {st \in EnrolledActive(stats.session) :
                ~\E a \in attendance : /\ a.session = stats.session
                                       /\ a.student = st
                                       /\ a.status \in {"present", "late"}}

\* The absence Notifications of student st.
StudentAbsenceNotifications(st) ==
    {n \in notifications : n.student = st /\ n.notification_type = "absence"}

\* The absence ParentNotifications for student st.
ParentAbsenceNotifications(st) ==
    {p \in parent_notifications : p.student = st /\ p.notification_type = "absence"}

\* C27: for a student with a parent the number of absence ParentNotifications
\* equals the number of absence Notifications of the student, and for a
\* student without a parent there is never a ParentNotification.
C27_ParentNotificationWithEachAbsence ==
    \A st \in Students :
        Cardinality(ParentAbsenceNotifications(st)) =
            IF st \in WithParent THEN Cardinality(StudentAbsenceNotifications(st)) ELSE 0

\* C27 witness: a student with a parent has two absence Notifications and two
\* ParentNotifications, and a student without a parent has an absence
\* Notification and no ParentNotification.
C27_Witness ==
    /\ \E st \in WithParent :
          /\ Cardinality(StudentAbsenceNotifications(st)) = 2
          /\ Cardinality(ParentAbsenceNotifications(st)) = 2
    /\ \E st \in Students \ WithParent :
          /\ StudentAbsenceNotifications(st) # {}
          /\ ParentAbsenceNotifications(st) = {}

\* The notification tables.
NotificationTables == <<notifications, parent_notifications, notification_logs>>

\* C28: update_attendance_ajax touches the notification tables only when the
\* new status is absent and the status before was not absent; a mark through
\* the API with a status other than absent leaves them alone; and whatever the
\* request, every absence Notification it creates is for a record whose
\* status is absent after the request.
C28_NotifiedOnlyOnTransitionIntoAbsent ==
    [][ /\ \A id \in 1..Cardinality(attendance), status \in AjaxStatuses :
              (last'.op = "update_attendance_ajax" /\ UpdateAttendanceAjax(id, status)) =>
                 \A old \in attendance :
                    (old.id = id /\ (status # "absent" \/ old.status = "absent")) =>
                       UNCHANGED NotificationTables
        /\ \A s \in Sessions, st \in MarkStudents, status \in MarkStatuses :
              (last'.op = "mark_attendance" /\ status # "absent"
                 /\ MarkAttendance(s, st, status, "gps")) =>
                 UNCHANGED NotificationTables
        /\ \A n \in notifications' \ notifications :
              n.notification_type = "absence" =>
                 \E r \in attendance' : r.id = n.attendance /\ r.status = "absent"
      ]_vars

\* C28 witness: update_attendance_ajax has set absent a record that was
\* absent already and had no absence Notification, and it still has none.
C28_Witness ==
    /\ last.op = "update_attendance_ajax"
    /\ last.result = "ok"
    /\ \E r \in attendance :
          /\ r.session = last.session
          /\ r.student = last.student
          /\ r.status = "absent"
          /\ AbsenceNotifications(notifications, r) = {}

\* A single mark that takes the record of (s, st) from a status other than
\* absent, with an absence Notification from an earlier absence, to absent.
BackToAbsent(s, st) ==
    /\ \E old \in RowsOf(attendance, s, st) :
          old.status # "absent" /\ AbsenceNotifications(notifications, old) # {}
    /\ \E new \in RowsOf(attendance', s, st) : new.status = "absent"

\* C29: through mark_attendance and update_attendance_ajax a record never has
\* more than one absence Notification, and a mark that brings a record with an
\* earlier absence Notification back to absent creates no Notification, no
\* ParentNotification and no NotificationLog.
C29_OneAbsenceNotificationPerRecord ==
    /\ [](\A row \in attendance :
             Cardinality(AbsenceNotifications(notifications, row)) <= 1)
    /\ [][\A s \in Sessions, st \in ActiveStudents :
             BackToAbsent(s, st) => UNCHANGED NotificationTables]_vars

\* C29 witness: three marks were made, the last a single mark that found the
\* record; the record has been absent, present and absent again and has
\* exactly one absence Notification, the only one in the table.
C29_Witness ==
    /\ nops = 3
    /\ last.op \in {"mark_attendance", "update_attendance_ajax"}
    /\ last.result = "ok"
    /\ ~last.created
    /\ Cardinality(attendance) = 1
    /\ Cardinality(notifications) = 1
    /\ \E row \in RowsOf(attendance, last.session, last.student) :
          /\ row.status = "absent"
          /\ Cardinality(AbsenceNotifications(notifications, row)) = 1

\* The figures of a statistics answer, the name of the view left out.
Figures(answer) ==
    [k \in {"total", "present", "absent", "late", "excused", "percentage"} |-> answer[k]]

\* C30 (as claimed): for the records of every session the three session
\* statistics, stats, get_session_stats and session_detail, answer the same
\* total, present, absent, late, excused and percentage, and every answer has
\* total = present + absent + late + excused and a percentage from 0 to 100.
C30_SessionStatisticsAgree ==
    /\ \A s \in Sessions :
          /\ Figures(SessionStats(SessionRows(attendance, s)))
               = Figures(GetSessionStats(SessionRows(attendance, s)))
          /\ Figures(SessionStats(SessionRows(attendance, s)))
               = Figures(SessionDetail(SessionRows(attendance, s)))
    /\ stats.view \in {"stats", "get_session_stats", "session_detail"} =>
          /\ stats.total = stats.present + stats.absent + stats.late + stats.excused
          /\ 0 <= stats.percentage
          /\ stats.percentage <= 1000
====
